---- MODULE Spec2Model ----
(***************************************************************************)
(* Model of harness.Build (src/harness/build.go): source analysis result,  *)
(* import alias resolution (calcImportAliases / addAlias /                 *)
(* makePackageAlias), preparation of the scratch directory, the            *)
(* "go build" / "go get" retry loop and newCompileError.                   *)
(*                                                                         *)
(* One Build call is a sequential process; pc is its position.  Results of *)
(* external calls (ProcessSource, the file system, the go tool) are drawn  *)
(* nondeterministically.  The elements of sourceInfo.ControllerSpecs,      *)
(* TestSuites, MethodSpecs and Args are drawn when the range loop reaches  *)
(* them, so every list up to the length bounds is covered.                 *)
(*                                                                         *)
(* Text (tool output) is a sequence of chunks whose concatenation is the   *)
(* text; ":", "#", " " after a colon, the double quote and the line break  *)
(* are always chunks of their own.                                         *)
(***************************************************************************)
EXTENDS Integers, Sequences, FiniteSets, TLC

\* ---------------------------------------------------------------- bounds
MaxSpecs == 2        \* length of ControllerSpecs, and of TestSuites
MaxMethods == 1      \* length of a TypeInfo's MethodSpecs
MaxArgs == 1         \* length of a MethodSpec's Args
MaxInit == 1         \* length of InitImportPaths as ProcessSource returns it
MaxBuildCalls == 2   \* Build calls in one run of the harness
MaxLines == 3        \* lines of a toolchain output handed to newCompileError

\* ---------------------------------------------------------------- inputs
ImportPaths == {"p1", "p2", "p3"}
PkgNames == {"a", "a0"}
MissingPkgs == {"q1", "q2"}
Nil == "nil"
NoAliases == << >>

\* MethodArg: ImportPath is "" for a built-in or same-package type.
MethodArgs(paths, names) ==
    {[ImportPath |-> "", PkgName |-> ""]}
        \cup [ImportPath : paths, PkgName : names]

\* The sources the whole-Build specification ranges over: the alias table is
\* not read after the template is rendered.
BuildPaths == {"p1"}
BuildNames == {"a"}

\* The sources the import-block specification ranges over: packages named
\* like an import the template emits itself.
BlockPaths == {"p1", "p2"}
BlockNames == {"a", "revel"}

SeqsUpTo(S, n) == UNION {[1..k -> S] : k \in 0..n}

Range(s) == {s[i] : i \in DOMAIN s}

\* ------------------------------------------------------- alias resolution
containsValue(m, val) == \E k \in DOMAIN m : m[k] = val

RECURSIVE makePackageAliasLoop(_, _, _, _)
makePackageAliasLoop(al, pkgName, alias, i) ==
    IF containsValue(al, alias)
    THEN makePackageAliasLoop(al, pkgName, pkgName \o ToString(i), i + 1)
    ELSE alias

\* Mutant: the package name is taken as it is.
makePackageAliasNoCheck(al, pkgName) == pkgName

\* Mutant: the suffixes start at 1.
makePackageAliasFromOne(al, pkgName) ==
    IF containsValue(al, pkgName)
    THEN makePackageAliasLoop(al, pkgName, pkgName \o ToString(1), 2)
    ELSE pkgName

makePackageAlias(al, pkgName) == makePackageAliasLoop(al, pkgName, pkgName, 0)

\* Mutant: an import path whose package name is already an alias is skipped.
addAliasSkipTaken(al, importPath, pkgName) ==
    IF importPath \in DOMAIN al \/ containsValue(al, pkgName)
    THEN al
    ELSE al @@ (importPath :> pkgName)

\* Mutant: a later reference allocates an alias again.
addAliasAgain(al, importPath, pkgName) ==
    [q \in DOMAIN al \cup {importPath} |->
        IF q = importPath THEN makePackageAlias(al, pkgName) ELSE al[q]]

addAlias(al, importPath, pkgName) ==
    IF importPath \in DOMAIN al
    THEN al
    ELSE al @@ (importPath :> makePackageAlias(al, pkgName))

\* Mutant: the discard alias overwrites the alias of a real usage.
addInitAliasOverwrite(al, importPath) ==
    [q \in DOMAIN al \cup {importPath} |->
        IF q = importPath THEN "_" ELSE al[q]]

\* if _, ok := aliases[importPath]; !ok { aliases[importPath] = "_" }
addInitAlias(al, importPath) ==
    IF importPath \in DOMAIN al THEN al ELSE al @@ (importPath :> "_")

\* REGISTER_CONTROLLERS: the identifiers of the imports the template emits
\* without alias: "flag", "reflect", "github.com/robfig/revel".
TemplateImports == {"flag", "reflect", "revel"}

\* The import block of the rendered program: the fixed imports, then one
\* line {{$v}} "{{$k}}" for every entry of the alias table.
ImportBlock(al) ==
    {[line |-> "fixed", ident |-> n] : n \in TemplateImports}
        \cup {[line |-> k, ident |-> al[k]] : k \in DOMAIN al}

\* ------------------------------------------------------------------ text
DigitChunks == {"2", "8", "9", "10", "42"}

\* strconv.Atoi on the digit chunks of the modelled outputs.
Atoi(d) ==
    CASE d = "2" -> 2 [] d = "8" -> 8 [] d = "9" -> 9
      [] d = "10" -> 10 [] d = "42" -> 42 [] OTHER -> 0

RECURSIVE Join(_)
Join(chunks) ==
    IF chunks = << >> THEN "" ELSE Head(chunks) \o Join(Tail(chunks))

\* Index of the first chunk at or after s that is in S; 0 when there is none.
FirstAt(out, s, S) ==
    LET idx == {i \in s..Len(out) : out[i] \in S}
    IN  IF idx = {} THEN 0 ELSE CHOOSE i \in idx : \A j \in idx : i <= j

\* Mutant: any complaint about an import counts as a missing package.
importErrorAtAnyReason(out, i) ==
    LET j == FirstAt(out, i + 3, {"\""})
    IN  IF /\ i + 2 <= Len(out)
           /\ out[i] = "import" /\ out[i + 1] = " " /\ out[i + 2] = "\""
           /\ j > i + 3
           /\ j + 2 <= Len(out)
           /\ out[j + 1] = ":" /\ out[j + 2] = " "
        THEN Join(SubSeq(out, i + 3, j - 1))
        ELSE Nil

\* importErrorPattern: import "([^"]+)": cannot find package
importErrorAt(out, i) ==
    LET j == FirstAt(out, i + 3, {"\""})
    IN  IF /\ i + 2 <= Len(out)
           /\ out[i] = "import" /\ out[i + 1] = " " /\ out[i + 2] = "\""
           /\ j > i + 3
           /\ j + 3 <= Len(out)
           /\ out[j + 1] = ":" /\ out[j + 2] = " "
           /\ out[j + 3] = "cannot find package"
        THEN Join(SubSeq(out, i + 3, j - 1))
        ELSE Nil

\* importErrorPattern.FindStringSubmatch(output)[1], Nil when matches == nil.
FindImportError(out) ==
    LET at == {i \in 1..Len(out) : importErrorAt(out, i) # Nil}
    IN  IF at = {} THEN Nil
        ELSE importErrorAt(out, CHOOSE i \in at : \A j \in at : i <= j)

NoMatch == [matched |-> FALSE]

\* (?m)^([^:#]+):(\d+):(\d+:)? (.*)$ tried at chunk s, a line start.
\* [^:#]+ also takes line breaks, so it runs to the first ":" or "#".
errorMatchAt(out, s) ==
    LET c == FirstAt(out, s, {":", "#"})
        hasCol == /\ c + 5 <= Len(out)
                  /\ out[c + 3] \in DigitChunks
                  /\ out[c + 4] = ":"
                  /\ out[c + 5] = " "
        d == IF hasCol THEN c + 6 ELSE c + 4
        nl == FirstAt(out, d, {"\n"})
        e == IF nl = 0 THEN Len(out) ELSE nl - 1
    IN  IF /\ c > s
           /\ out[c] = ":"
           /\ c + 2 <= Len(out)
           /\ out[c + 1] \in DigitChunks
           /\ out[c + 2] = ":"
           /\ (hasCol \/ (c + 3 <= Len(out) /\ out[c + 3] = " "))
        THEN [path |-> Join(SubSeq(out, s, c - 1)),
              line |-> out[c + 1],
              desc |-> Join(SubSeq(out, d, e))]
        ELSE NoMatch

\* FindSubmatch: the leftmost match; ^ matches at the start of any line.
errorMatch(out) ==
    LET at == {s \in 1..Len(out) :
                  /\ (s = 1 \/ out[s - 1] = "\n")
                  /\ errorMatchAt(out, s) # NoMatch}
    IN  IF at = {} THEN NoMatch
        ELSE errorMatchAt(out, CHOOSE s \in at : \A t \in at : s <= t)

\* filepath.Abs of a relative name.
Abs(relFilename) == "/cwd/" \o relFilename

\* What revel.ReadLines returns for a source file it can read.
FileLines == <<"src">>

\* Whether newCompileError calls revel.ReadLines, and how the call ends.
ReadLinesOutcome(output, readable) ==
    IF errorMatch(output) = NoMatch THEN "none"
    ELSE IF readable THEN "read" ELSE "failed"

\* Mutant: a source file that cannot be read masks the diagnostic.
newCompileErrorMasked(output, readable) ==
    LET m == errorMatch(output)
    IN  IF m = NoMatch \/ ~readable
        THEN [SourceType |-> "Go code", Title |-> "Go Compilation Error",
              Path |-> "", Description |-> "See console for build error.",
              Line |-> 0, SourceLines |-> << >>,
              MetaError |-> IF m = NoMatch THEN "" ELSE "open failed"]
        ELSE [SourceType |-> "Go code", Title |-> "Go Compilation Error",
              Path |-> m.path, Description |-> m.desc, Line |-> Atoi(m.line),
              SourceLines |-> FileLines, MetaError |-> ""]

\* newCompileError(output); readable is the outcome of revel.ReadLines.
newCompileError(output, readable) ==
    LET m == errorMatch(output)
    IN  IF m = NoMatch
        THEN [SourceType |-> "Go code", Title |-> "Go Compilation Error",
              Path |-> "", Description |-> "See console for build error.",
              Line |-> 0, SourceLines |-> << >>, MetaError |-> ""]
        ELSE [SourceType |-> "Go code", Title |-> "Go Compilation Error",
              Path |-> m.path, Description |-> m.desc, Line |-> Atoi(m.line),
              SourceLines |-> IF readable THEN FileLines ELSE << >>,
              MetaError |-> IF readable THEN ""
                            ELSE Abs(m.path) \o ": " \o "open failed"]

\* Outputs of a failed "go build".
MissingOut(p, line) ==
    <<"main.go", ":", line, ":", "2", ":", " ",
      "import", " ", "\"", p, "\"", ":", " ", "cannot find package">>

CompileOut ==
    <<"#", " ", "app/tmp", "\n",
      "controllers/app.go", ":", "42", ":", "10", ":", " ",
      "undefined", ":", " ", "Foo">>

UnparsableOut == <<"signal", ":", " ", "killed">>

\* A diagnostic about an import that is not the missing-package one.
BadImportOut ==
    <<"main.go", ":", "8", ":", "2", ":", " ",
      "import", " ", "\"", "q1", "\"", ":", " ", "cannot import absolute path">>

BuildOutputs ==
    {MissingOut(p, l) : p \in MissingPkgs, l \in {"8", "9"}}
        \cup {CompileOut, UnparsableOut, BadImportOut}

\* Output of a failed "go get <pkg>".
GetFailedOut(p) ==
    <<"package", " ", p, ":", " ", "unrecognized import path">>

\* Lines a toolchain output is made of: a line without ":" and "#", a
\* package header, diagnostics with and without column, a line with a colon
\* that is no diagnostic, and a position without file name.
PlainLine == <<"go build failed">>
HeaderLine == <<"#", " ", "app/tmp">>
DiagColLine ==
    <<"controllers/app.go", ":", "42", ":", "10", ":", " ",
      "undefined", ":", " ", "Foo">>
DiagLine == <<"models/user.go", ":", "8", ":", " ", "syntax error">>
NoteLine == <<"signal", ":", " ", "killed">>
NoFileLine == <<":", "9", ":", " ", "msg">>

OutputLines ==
    {PlainLine, HeaderLine, DiagColLine, DiagLine, NoteLine, NoFileLine}

\* The text of the lines ls, one "\n" between two lines.
RECURSIVE JoinLines(_)
JoinLines(ls) ==
    IF ls = << >> THEN << >>
    ELSE IF Len(ls) = 1 THEN ls[1]
    ELSE ls[1] \o <<"\n">> \o JoinLines(Tail(ls))

\* The outputs newCompileError is applied to.
ParseOutputs == {JoinLines(ls) : ls \in SeqsUpTo(OutputLines, MaxLines)}

\* ----------------------------------------------------------------- state
VARIABLES
    pc,                \* position of the Build call
    calls,             \* Build calls started so far
    earlier,           \* history: packages the earlier Build calls tried with "go get"
    InitImportPaths,   \* sourceInfo.InitImportPaths
    aliases,           \* the table calcImportAliases builds
    typeArray,         \* index into typeArrays: 1 ControllerSpecs, 2 TestSuites
    specIdx,           \* specs of the current array already ranged over
    methIdx,           \* methods of the current spec already ranged over
    argIdx,            \* args of the current method already ranged over
    initIdx,           \* next index into InitImportPaths
    referenced,        \* history: import paths of the TypeInfos and MethodArgs seen
    firstType,         \* history: package name -> import path of the first type declaring it
    declName,          \* history: import path -> the package name its types declare
    lastRef,           \* history: the reference the last alias step handled, and the array of its type
    registerControllerSource,  \* the rendered main.go text (abstract)
    tmpDir,            \* file system: the scratch directory app/tmp
    mainGo,            \* file system: app/tmp/main.go
    events,            \* history: what this Build call did while preparing
    gotten,            \* packages already tried with "go get"
    output,            \* combined output of the last "go build"
    pkgName,           \* the missing package matched in output
    getOutput,         \* combined output of the last "go get"
    buildLog,          \* history: outcome of every "go build" of this call
    getLog,            \* history: every "go get" of this call
    readLines,         \* history: the revel.ReadLines call of newCompileError in this call
    app,               \* returned *App
    compileError       \* returned *revel.Error

aliasVars == <<InitImportPaths, aliases, typeArray, specIdx, methIdx, argIdx,
               initIdx, referenced, firstType, declName, lastRef>>
prepVars == <<registerControllerSource, tmpDir, mainGo, events>>
loopVars == <<gotten, output, pkgName, getOutput, buildLog, getLog, readLines>>
retVars == <<app, compileError>>
vars == <<pc, calls, earlier, aliasVars, prepVars, loopVars, retVars>>

NilError == [nil |-> TRUE]
NoRef == [kind |-> "none", array |-> "", ImportPath |-> "", PkgName |-> ""]
NoFirstType == [n \in PkgNames \cup BlockNames |-> ""]
NoDeclName == [p \in ImportPaths |-> ""]
BuildOK == <<"ok">>
binName == "bin/app"

\* The error ProcessSource returns for an unparsable source tree.
AnalysisError ==
    [SourceType |-> "Go code", Title |-> "Go Compilation Error",
     Path |-> "app/controllers/app.go", Description |-> "syntax error",
     Line |-> 2, SourceLines |-> <<"src">>, MetaError |-> ""]

AliasLocalsInit ==
    /\ InitImportPaths = << >>
    /\ aliases = NoAliases
    /\ typeArray = 1
    /\ specIdx = 0
    /\ methIdx = 0
    /\ argIdx = 0
    /\ initIdx = 1
    /\ referenced = {}
    /\ firstType = NoFirstType
    /\ declName = NoDeclName
    /\ lastRef = NoRef

LoopLocalsInit ==
    /\ gotten = {}
    /\ output = << >>
    /\ pkgName = ""
    /\ getOutput = << >>
    /\ buildLog = << >>
    /\ getLog = << >>
    /\ readLines = "none"

Init ==
    /\ pc = "ProcessSource"
    /\ calls = 1
    /\ earlier = {}
    /\ AliasLocalsInit
    /\ registerControllerSource = ""
    /\ tmpDir \in {"absent", "present"}
    /\ mainGo = "none"
    /\ events = {}
    /\ LoopLocalsInit
    /\ app = Nil
    /\ compileError = NilError

\* return app, compileError
Return(a, e) ==
    /\ pc' = "Returned"
    /\ app' = a
    /\ compileError' = e

\* revel.ERROR.Fatalf: the process exits.
Fatalf ==
    /\ pc' = "Fatal"
    /\ UNCHANGED retVars

\* ------------------------------------------------- Build: source analysis
\* Mutant: the error of ProcessSource is dropped and Build goes on.
AnalysisFailedIgnored ==
    /\ events' = events \cup {"AnalysisFailed"}
    /\ pc' = "DbImport"
    /\ UNCHANGED retVars

\* What Build does when ProcessSource returned an error: return nil, compileError
AnalysisFailed ==
    /\ events' = events \cup {"AnalysisFailed"}
    /\ Return(Nil, AnalysisError)

\* sourceInfo, compileError := ProcessSource(revel.CodePaths)
ProcessSource(paths) ==
    /\ pc = "ProcessSource"
    /\ \/ /\ AnalysisFailed
          /\ UNCHANGED InitImportPaths
       \/ /\ \E init \in SeqsUpTo(paths, MaxInit) : InitImportPaths' = init
          /\ pc' = "DbImport"
          /\ UNCHANGED <<retVars, events>>
    /\ UNCHANGED <<calls, earlier, aliases, typeArray, specIdx, methIdx, argIdx, initIdx,
                   referenced, firstType, declName, lastRef,
                   registerControllerSource, tmpDir, mainGo, loopVars>>

\* revel.Config.String("db.import"): add the db.import to the import paths.
ConfigDbImport(paths) ==
    /\ pc = "DbImport"
    /\ \E found \in BOOLEAN, dbImportPath \in paths :
          InitImportPaths' = IF found THEN Append(InitImportPaths, dbImportPath)
                             ELSE InitImportPaths
    /\ pc' = "RangeSpecs"
    /\ UNCHANGED <<calls, earlier, aliases, typeArray, specIdx, methIdx, argIdx, initIdx,
                   referenced, firstType, declName, lastRef, prepVars, loopVars, retVars>>

\* ------------------------------------------------ calcImportAliases loops
typeArrays == <<"ControllerSpecs", "TestSuites">>

\* for _, spec := range specs: addAlias(aliases, spec.ImportPath, spec.PackageName)
\* The types of one import path all declare the same package name.
NextSpec(paths, names) ==
    /\ pc = "RangeSpecs"
    /\ specIdx < MaxSpecs
    /\ \E importPath \in paths, packageName \in names :
          /\ declName[importPath] \in {"", packageName}
          /\ declName' = [declName EXCEPT ![importPath] = packageName]
          /\ aliases' = addAlias(aliases, importPath, packageName)
          /\ referenced' = referenced \cup {importPath}
          /\ firstType' = IF firstType[packageName] = ""
                          THEN [firstType EXCEPT ![packageName] = importPath]
                          ELSE firstType
          /\ lastRef' = [kind |-> "TypeInfo", array |-> typeArrays[typeArray],
                         ImportPath |-> importPath, PkgName |-> packageName]
    /\ specIdx' = specIdx + 1
    /\ methIdx' = 0
    /\ pc' = "RangeMethods"
    /\ UNCHANGED <<calls, earlier, InitImportPaths, typeArray, argIdx, initIdx,
                   prepVars, loopVars, retVars>>

\* The current array is exhausted: the next array, or the InitImportPaths loop.
EndSpecs ==
    /\ pc = "RangeSpecs"
    /\ IF typeArray < Len(typeArrays)
       THEN /\ typeArray' = typeArray + 1
            /\ specIdx' = 0
            /\ UNCHANGED <<pc, initIdx>>
       ELSE /\ pc' = "RangeInit"
            /\ initIdx' = 1
            /\ UNCHANGED <<typeArray, specIdx>>
    /\ UNCHANGED <<calls, earlier, InitImportPaths, aliases, methIdx, argIdx, referenced,
                   firstType, declName, lastRef, prepVars, loopVars, retVars>>

\* for _, methSpec := range spec.MethodSpecs
NextMethod ==
    /\ pc = "RangeMethods"
    /\ methIdx < MaxMethods
    /\ methIdx' = methIdx + 1
    /\ argIdx' = 0
    /\ pc' = "RangeArgs"
    /\ UNCHANGED <<calls, earlier, InitImportPaths, aliases, typeArray, specIdx, initIdx,
                   referenced, firstType, declName, lastRef, prepVars, loopVars, retVars>>

EndMethods ==
    /\ pc = "RangeMethods"
    /\ pc' = "RangeSpecs"
    /\ UNCHANGED <<calls, earlier, aliasVars, prepVars, loopVars, retVars>>

\* for _, methArg := range methSpec.Args: skip "", else addAlias
NextArg(args) ==
    /\ pc = "RangeArgs"
    /\ argIdx < MaxArgs
    /\ \E methArg \in args :
          /\ lastRef' = [kind |-> "MethodArg", array |-> typeArrays[typeArray],
                         ImportPath |-> methArg.ImportPath,
                         PkgName |-> methArg.PkgName]
          /\ IF methArg.ImportPath = ""
             THEN UNCHANGED <<aliases, referenced>>
             ELSE /\ aliases' = addAlias(aliases, methArg.ImportPath, methArg.PkgName)
                  /\ referenced' = referenced \cup {methArg.ImportPath}
    /\ argIdx' = argIdx + 1
    /\ UNCHANGED <<pc, calls, earlier, InitImportPaths, typeArray, specIdx, methIdx,
                   initIdx, firstType, declName, prepVars, loopVars, retVars>>

EndArgs ==
    /\ pc = "RangeArgs"
    /\ pc' = "RangeMethods"
    /\ UNCHANGED <<calls, earlier, aliasVars, prepVars, loopVars, retVars>>

\* for _, importPath := range src.InitImportPaths: alias "_" unless present
NextInit ==
    /\ pc = "RangeInit"
    /\ initIdx <= Len(InitImportPaths)
    /\ aliases' = addInitAlias(aliases, InitImportPaths[initIdx])
    /\ lastRef' = [kind |-> "InitImportPath", array |-> "InitImportPaths",
                   ImportPath |-> InitImportPaths[initIdx], PkgName |-> ""]
    /\ initIdx' = initIdx + 1
    /\ UNCHANGED <<pc, calls, earlier, InitImportPaths, typeArray, specIdx, methIdx,
                   argIdx, referenced, firstType, declName, prepVars, loopVars, retVars>>

\* return aliases
EndInit ==
    /\ pc = "RangeInit"
    /\ initIdx > Len(InitImportPaths)
    /\ pc' = "ExecuteTemplate"
    /\ UNCHANGED <<calls, earlier, aliasVars, prepVars, loopVars, retVars>>

\* revel.ExecuteTemplate consumes sourceInfo and the alias table; neither is
\* read again, only the rendered text is kept.
ExecuteTemplate ==
    /\ pc = "ExecuteTemplate"
    /\ registerControllerSource' = "main.go source"
    /\ InitImportPaths' = << >>
    /\ aliases' = NoAliases
    /\ typeArray' = 1
    /\ specIdx' = 0
    /\ methIdx' = 0
    /\ argIdx' = 0
    /\ initIdx' = 1
    /\ referenced' = {}
    /\ firstType' = NoFirstType
    /\ declName' = NoDeclName
    /\ lastRef' = NoRef
    /\ pc' = "RemoveAll"
    /\ UNCHANGED <<calls, earlier, tmpDir, mainGo, events, loopVars, retVars>>

\* --------------------------------------------- Build: the scratch directory
\* err := os.RemoveAll(tmpPath): a failure is logged and Build goes on.  A
\* failed RemoveAll may leave the directory or not.
RemoveAll ==
    /\ pc = "RemoveAll"
    /\ \/ /\ tmpDir' = "absent"
          /\ mainGo' = "none"
          /\ UNCHANGED events
       \/ /\ events' = events \cup {"RemoveAllFailed"}
          /\ \/ UNCHANGED <<tmpDir, mainGo>>
             \/ tmpDir' = "absent" /\ mainGo' = "none"
    /\ pc' = "Mkdir"
    /\ UNCHANGED <<calls, earlier, aliasVars, registerControllerSource, loopVars, retVars>>

\* Mutant: a failed Mkdir is logged like a failed RemoveAll.
MkdirFailedLogged ==
    /\ events' = events \cup {"MkdirFailed"}
    /\ pc' = "Create"
    /\ UNCHANGED <<tmpDir, retVars>>

\* What Build does when os.Mkdir failed: revel.ERROR.Fatalf.
MkdirFailed ==
    /\ events' = events \cup {"MkdirFailed"}
    /\ Fatalf
    /\ UNCHANGED tmpDir

\* err = os.Mkdir(tmpPath, 0777): fails when the directory is still there.
Mkdir ==
    /\ pc = "Mkdir"
    /\ \/ /\ tmpDir = "absent"
          /\ tmpDir' = "present"
          /\ pc' = "Create"
          /\ UNCHANGED <<events, retVars>>
       \/ MkdirFailed
    /\ UNCHANGED <<calls, earlier, aliasVars, registerControllerSource, mainGo, loopVars>>

\* controllersFile, err := os.Create(path.Join(tmpPath, "main.go"))
Create ==
    /\ pc = "Create"
    /\ \/ /\ mainGo' = "empty"
          /\ pc' = "WriteString"
          /\ UNCHANGED retVars
       \/ /\ Fatalf
          /\ UNCHANGED mainGo
    /\ UNCHANGED <<calls, earlier, aliasVars, registerControllerSource, tmpDir, events,
                   loopVars>>

\* _, err = controllersFile.WriteString(registerControllerSource)
WriteString ==
    /\ pc = "WriteString"
    /\ \/ /\ mainGo' = registerControllerSource
          /\ events' = events \cup {"MainGoWritten"}
          /\ pc' = "LookPath"
          /\ UNCHANGED retVars
       \/ /\ Fatalf
          /\ UNCHANGED <<mainGo, events>>
    /\ UNCHANGED <<calls, earlier, aliasVars, registerControllerSource, tmpDir, loopVars>>

\* goPath, err := exec.LookPath("go")
LookPath ==
    /\ pc = "LookPath"
    /\ \/ pc' = "Import" /\ UNCHANGED retVars
       \/ Fatalf
    /\ UNCHANGED <<calls, earlier, aliasVars, prepVars, loopVars>>

\* Mutant: one map is kept for all Build calls.
MakeGottenShared(g) == g

\* gotten := make(map[string]struct{}): g is what the name held before.
MakeGotten(g) == {}

\* pkg, err := ctx.Import(revel.ImportPath, "", build.FindOnly);
\* then gotten := make(map[string]struct{})
Import ==
    /\ pc = "Import"
    /\ \/ pc' = "GoBuild" /\ UNCHANGED retVars
       \/ Fatalf
    /\ gotten' = MakeGotten(gotten)
    /\ UNCHANGED <<calls, earlier, aliasVars, prepVars, output, pkgName, getOutput,
                   buildLog, getLog, readLines>>

\* ------------------------------------------------- Build: the retry loop
\* err == nil after buildCmd.CombinedOutput()
Succeeded(res) == res = BuildOK

\* Mutant: the package is never found in gotten.
AlreadyTriedNever(g, p) == FALSE

\* _, alreadyTried := gotten[pkgName]
AlreadyTried(g, p) == p \in g

\* Mutant: the package is not recorded.
MarkGottenDropped(g, p) == g

\* gotten[pkgName] = struct{}{}
MarkGotten(g, p) == g \cup {p}

\* Mutant: the error is parsed from the output of "go get".
ErrorInputGetOutput(out, getOut) == getOut

\* The bytes Build hands to newCompileError after a failed fetch.
ErrorInput(out, getOut) == out

\* Mutant: no handle is returned.
NewAppNil(name) == Nil

\* NewApp(binName)
NewApp(name) == name

\* One iteration up to the fetch: run "go build", return on success, on an
\* output without the import error, or on a package already tried.
GoBuild ==
    /\ pc = "GoBuild"
    /\ \E res \in {BuildOK} \cup BuildOutputs, readable \in BOOLEAN :
          /\ buildLog' = Append(buildLog, res)
          /\ IF Succeeded(res)
             THEN /\ Return(NewApp(binName), NilError)
                  /\ output' = << >>
                  /\ UNCHANGED <<gotten, pkgName, readLines>>
             ELSE /\ output' = res
                  /\ IF FindImportError(res) = Nil
                     THEN /\ Return(Nil, newCompileError(res, readable))
                          /\ readLines' = ReadLinesOutcome(res, readable)
                          /\ UNCHANGED <<gotten, pkgName>>
                     ELSE /\ pkgName' = FindImportError(res)
                          /\ IF AlreadyTried(gotten, FindImportError(res))
                             THEN /\ Return(Nil, newCompileError(res, readable))
                                  /\ readLines' = ReadLinesOutcome(res, readable)
                                  /\ UNCHANGED gotten
                             ELSE /\ gotten' = MarkGotten(gotten, FindImportError(res))
                                  /\ pc' = "GoGet"
                                  /\ UNCHANGED <<retVars, readLines>>
    /\ UNCHANGED <<calls, earlier, aliasVars, prepVars, getOutput, getLog>>

\* Execute "go get <pkg>": back to "go build" when it succeeds.
GoGet ==
    /\ pc = "GoGet"
    /\ \E ok \in BOOLEAN, readable \in BOOLEAN :
          /\ getLog' = Append(getLog, [pkg |-> pkgName, ok |-> ok])
          /\ IF ok
             THEN /\ getOutput' = << >>
                  /\ pc' = "GoBuild"
                  /\ UNCHANGED <<retVars, readLines>>
             ELSE /\ getOutput' = GetFailedOut(pkgName)
                  /\ Return(Nil, newCompileError(
                                ErrorInput(output, GetFailedOut(pkgName)), readable))
                  /\ readLines' = ReadLinesOutcome(
                                ErrorInput(output, GetFailedOut(pkgName)), readable)
    /\ UNCHANGED <<calls, earlier, aliasVars, prepVars, gotten, output, pkgName, buildLog>>

\* The caller (the harness) calls Build again, e.g. after a source change.
BuildAgain ==
    /\ pc = "Returned"
    /\ calls < MaxBuildCalls
    /\ calls' = calls + 1
    /\ pc' = "ProcessSource"
    /\ registerControllerSource' = ""
    /\ events' = {}
    /\ earlier' = earlier \cup gotten
    /\ output' = << >>
    /\ pkgName' = ""
    /\ getOutput' = << >>
    /\ buildLog' = << >>
    /\ getLog' = << >>
    /\ readLines' = "none"
    /\ app' = Nil
    /\ compileError' = NilError
    /\ UNCHANGED <<aliasVars, tmpDir, mainGo, gotten>>

\* calcImportAliases over the sources of ImportPaths and PkgNames.
AliasSteps(paths, names) ==
    \/ ProcessSource(paths)
    \/ ConfigDbImport(paths)
    \/ NextSpec(paths, names)
    \/ EndSpecs
    \/ NextMethod
    \/ EndMethods
    \/ NextArg(MethodArgs(paths, names))
    \/ EndArgs
    \/ NextInit
    \/ EndInit
    \/ ExecuteTemplate

Next ==
    \/ AliasSteps(BuildPaths, BuildNames)
    \/ RemoveAll
    \/ Mkdir
    \/ Create
    \/ WriteString
    \/ LookPath
    \/ Import
    \/ GoBuild
    \/ GoGet
    \/ BuildAgain

Spec == Init /\ [][Next]_vars

\* The first part of one Build call, up to the rendered template, over every
\* source of the bounds.
NextAlias == AliasSteps(ImportPaths, PkgNames)

InitAlias ==
    /\ Init
    /\ tmpDir = "absent"

SpecAlias == InitAlias /\ [][NextAlias]_vars

\* Alias resolution over the sources of BlockPaths and BlockNames.
NextBlock == AliasSteps(BlockPaths, BlockNames)

SpecBlock == InitAlias /\ [][NextBlock]_vars

\* newCompileError on its own, over every output of ParseOutputs.
InitParse ==
    /\ pc = "Parse"
    /\ calls = 1
    /\ earlier = {}
    /\ AliasLocalsInit
    /\ registerControllerSource = ""
    /\ tmpDir = "absent"
    /\ mainGo = "none"
    /\ events = {}
    /\ gotten = {}
    /\ output \in ParseOutputs
    /\ pkgName = ""
    /\ getOutput = << >>
    /\ buildLog = << >>
    /\ getLog = << >>
    /\ readLines = "none"
    /\ app = Nil
    /\ compileError = NilError

\* compileError = newCompileError(output)
ParseOutput ==
    /\ pc = "Parse"
    /\ \E readable \in BOOLEAN :
          /\ compileError' = newCompileError(output, readable)
          /\ readLines' = ReadLinesOutcome(output, readable)
    /\ pc' = "Parsed"
    /\ UNCHANGED <<calls, earlier, aliasVars, prepVars, gotten, output, pkgName,
                   getOutput, buildLog, getLog, app>>

NextParse == ParseOutput

SpecParse == InitParse /\ [][NextParse]_vars

\* ================================================================ claims
Last(s) == s[Len(s)]

\* Build invocation res failed and its first import error names p.
IsMissing(res, p) == res # BuildOK /\ FindImportError(res) = p

FetchedPkgs == {getLog[i].pkg : i \in DOMAIN getLog}

\* C1: within one Build call no package is fetched twice: "go get P" is
\* issued only for a P that is in gotten and was not fetched before.
C1_NoRefetch ==
    /\ \A i, j \in DOMAIN getLog : i # j => getLog[i].pkg # getLog[j].pkg
    /\ FetchedPkgs \subseteq gotten
    /\ pc = "GoGet" => pkgName \in gotten /\ pkgName \notin FetchedPkgs

C1_Witness ==
    /\ pc = "Returned"
    /\ Len(getLog) = 2
    /\ Len(buildLog) = 3

\* The distinct missing packages the builds of this call reported.
Reported ==
    {FindImportError(buildLog[i]) : i \in DOMAIN buildLog} \ {Nil}

\* Steps the retry loop still has in it: two for every package not yet
\* attempted, one more while a fetch is pending.
LoopMeasure ==
    2 * Cardinality(MissingPkgs \ gotten) + (IF pc = "GoGet" THEN 1 ELSE 0)

InLoop(at) == at \in {"GoBuild", "GoGet"}

\* C2: the retry loop ends: taking the fetch branch strictly grows gotten
\* (shrinks the never-attempted packages); every step that stays in the loop
\* lowers LoopMeasure, a natural number, so the loop leaves for a return
\* after finitely many steps; and a call runs at most (distinct missing
\* packages reported) + 1 builds.
C2_Terminates ==
    /\ [](Len(buildLog) <= Cardinality(Reported) + 1)
    /\ [](gotten \subseteq MissingPkgs)
    /\ [][pc' = "GoGet" => gotten \subseteq gotten' /\ gotten' # gotten]_vars
    /\ [][InLoop(pc) /\ InLoop(pc') => LoopMeasure' < LoopMeasure]_vars
    /\ [][InLoop(pc) => InLoop(pc') \/ pc' = "Returned"]_vars

C2_Witness ==
    /\ pc = "Returned"
    /\ Cardinality(Reported) = 2
    /\ Len(buildLog) = 3

\* C3: first build misses P, "go get P" succeeds, second build is clean:
\* Build has returned the binary and no error after two builds, one fetch.
C3_BuiltAfterFetch ==
    \A p \in MissingPkgs :
        (/\ Len(buildLog) >= 2
         /\ IsMissing(buildLog[1], p)
         /\ Len(getLog) >= 1
         /\ getLog[1] = [pkg |-> p, ok |-> TRUE]
         /\ buildLog[2] = BuildOK)
        => (/\ pc = "Returned"
            /\ app = binName
            /\ compileError = NilError
            /\ Len(buildLog) = 2
            /\ Len(getLog) = 1)

C3_Witness ==
    /\ Len(buildLog) = 2
    /\ IsMissing(buildLog[1], "q1")
    /\ getLog = <<[pkg |-> "q1", ok |-> TRUE]>>
    /\ buildLog[2] = BuildOK

\* C4: a build misses P, "go get P" succeeds, the next build misses P again:
\* Build has failed on that build, with no second fetch of P and no further
\* build.
C4_FailsOnRepeat ==
    \A p \in MissingPkgs : \A k \in 1..(Len(buildLog) - 1) :
        (/\ IsMissing(buildLog[k], p)
         /\ Len(getLog) >= k
         /\ getLog[k] = [pkg |-> p, ok |-> TRUE]
         /\ IsMissing(buildLog[k + 1], p))
        => (/\ pc = "Returned"
            /\ app = Nil
            /\ compileError # NilError
            /\ Len(buildLog) = k + 1
            /\ Len(getLog) = k)

C4_Witness ==
    /\ Len(buildLog) = 2
    /\ IsMissing(buildLog[1], "q1")
    /\ getLog = <<[pkg |-> "q1", ok |-> TRUE]>>
    /\ IsMissing(buildLog[2], "q1")

\* Build returned an error after a build whose output named a missing
\* package: the fetch failed, or the package had been attempted already.
DependencyFailed ==
    /\ pc = "Returned"
    /\ app = Nil
    /\ buildLog # << >>
    /\ Last(buildLog) # BuildOK
    /\ FindImportError(Last(buildLog)) # Nil

FetchFailed == getLog # << >> /\ ~Last(getLog).ok

\* The output of the first build of this call that named p as missing.
FirstReport(p) ==
    buildLog[CHOOSE i \in DOMAIN buildLog :
                /\ IsMissing(buildLog[i], p)
                /\ \A j \in 1..(i - 1) : ~IsMissing(buildLog[j], p)]

ErrorFrom(text) ==
    \E readable \in BOOLEAN : compileError = newCompileError(text, readable)

\* C9 as claimed: on a dependency error the CompileError comes from the
\* build output that first reported the package as missing.
C9_Original == DependencyFailed => ErrorFrom(FirstReport(pkgName))

\* C9 amended: on a dependency error the CompileError comes from the output
\* of the last build, never from the output of "go get"; after a failed
\* fetch that is the output that first reported the package, for a package
\* already attempted it is the later output that reported it again.
C9_FromLastBuildOutput ==
    DependencyFailed =>
        /\ ErrorFrom(Last(buildLog))
        /\ FetchFailed =>
              /\ Last(buildLog) = FirstReport(pkgName)
              /\ ~ErrorFrom(getOutput)
        /\ ~FetchFailed =>
              /\ Len(getLog) = Len(buildLog) - 1
              /\ \E k \in 1..(Len(buildLog) - 1) : IsMissing(buildLog[k], pkgName)

C9_Witness ==
    /\ DependencyFailed
    /\ FetchFailed
    /\ Len(buildLog) = 2
    /\ getOutput = GetFailedOut(pkgName)

\* C10 as claimed: after a failed RemoveAll or a failed Mkdir the attempt
\* writes no main.go and runs no build.
C10_Original ==
    (events \cap {"RemoveAllFailed", "MkdirFailed"}) # {}
        => "MainGoWritten" \notin events /\ buildLog = << >>

\* C10 amended: a failed Mkdir is fatal: the process exits, main.go is not
\* written, no build is run and nothing follows.  A failed RemoveAll is only
\* logged; main.go is written and a build is run only after Mkdir succeeded.
C10_MkdirFailureFatal ==
    /\ []("MkdirFailed" \in events =>
              /\ pc = "Fatal"
              /\ "MainGoWritten" \notin events
              /\ buildLog = << >>)
    /\ [](pc = "Fatal" => ~ENABLED Next)
    /\ [][pc = "Mkdir" /\ pc' = "Create" => tmpDir = "absent" /\ tmpDir' = "present"]_vars

C10_Witness ==
    /\ pc = "Fatal"
    /\ events = {"RemoveAllFailed", "MkdirFailed"}

\* ------------------------------------------------ claims on the alias table
RangeOf(al) == {al[k] : k \in DOMAIN al}

\* C5 as claimed: no alias is given to two different import paths.
C5_Original ==
    \A p, q \in DOMAIN aliases : p # q => aliases[p] # aliases[q]

\* C5 amended: no alias other than the discard alias "_" is given to two
\* different import paths.
C5_UniqueRealAliases ==
    \A p, q \in DOMAIN aliases :
        p # q /\ aliases[p] = aliases[q] => aliases[p] = "_"

C5_Witness ==
    /\ pc = "ExecuteTemplate"
    /\ RangeOf(aliases) = {"a", "a0", "_"}
    /\ Cardinality(DOMAIN aliases) = 3

\* C6: every import path a TypeInfo or a MethodArg referenced is a key of
\* the table calcImportAliases returns.
C6_ReferencedAreKeys ==
    pc = "ExecuteTemplate" => referenced \subseteq DOMAIN aliases

C6_Witness ==
    /\ pc = "ExecuteTemplate"
    /\ lastRef.kind = "MethodArg"
    /\ lastRef.ImportPath # ""
    /\ referenced = ImportPaths

\* x is n followed by a numeric suffix.
Suffixed(x, n) ==
    \E k \in 0..Cardinality(ImportPaths) : x = n \o ToString(k)

\* al2 is al after a reference to import path p of a package named n.
AllocRule(al, al2, p, n) ==
    IF p \in DOMAIN al
    THEN al2 = al
    ELSE /\ DOMAIN al2 = DOMAIN al \cup {p}
         /\ \A q \in DOMAIN al : al2[q] = al[q]
         /\ IF n \notin RangeOf(al)
            THEN al2[p] = n
            ELSE \E k \in 0..Cardinality(DOMAIN al) :
                    /\ al2[p] = n \o ToString(k)
                    /\ al2[p] \notin RangeOf(al)
                    /\ \A j \in 0..(k - 1) : n \o ToString(j) \in RangeOf(al)

TypeStep == pc = "RangeSpecs" /\ pc' = "RangeMethods"
ArgStep == pc = "RangeArgs" /\ argIdx' = argIdx + 1

\* Every reference gets its alias by the rule.
AllocByRule ==
    /\ TypeStep \/ (ArgStep /\ lastRef'.ImportPath # "") =>
          AllocRule(aliases, aliases', lastRef'.ImportPath, lastRef'.PkgName)
    /\ ArgStep /\ lastRef'.ImportPath = "" => aliases' = aliases

\* Controllers before test suites before InitImportPaths; a type's own
\* import path before its method arguments'.
DeclarationOrder ==
    /\ lastRef.array = "TestSuites" => lastRef'.array # "ControllerSpecs"
    /\ lastRef.array = "InitImportPaths" =>
          lastRef'.array \notin {"ControllerSpecs", "TestSuites"}
    /\ lastRef'.kind = "MethodArg" =>
          /\ lastRef.kind \in {"TypeInfo", "MethodArg"}
          /\ lastRef.array = lastRef'.array

\* C7 as claimed, for a type declared after the first type f of the same
\* package name, with another import path: f has the bare name and the
\* later type a suffixed one.
FirstUnsuffixedOtherSuffixed ==
    TypeStep =>
        LET p == lastRef'.ImportPath
            n == lastRef'.PkgName
            f == firstType[n]
        IN  f \notin {"", p} =>
                /\ aliases'[f] = n
                /\ aliases'[p] # n
                /\ Suffixed(aliases'[p], n)

C7_Original ==
    [][AllocByRule /\ DeclarationOrder /\ FirstUnsuffixedOtherSuffixed]_vars

\* The same, where it holds: the two aliases always differ; the first type
\* of a package name gets the bare name if its import path had no alias and
\* no import path held that name; a later one gets a suffixed name if its
\* import path had no alias and the first type holds the bare name.
DistinctAndSuffixedWhenFresh ==
    TypeStep =>
        LET p == lastRef'.ImportPath
            n == lastRef'.PkgName
            f == firstType[n]
        IN  /\ f = "" /\ p \notin DOMAIN aliases /\ n \notin RangeOf(aliases)
                => aliases'[p] = n
            /\ f \notin {"", p} => aliases'[p] # aliases'[f]
            /\ f \notin {"", p} /\ p \notin DOMAIN aliases /\ aliases[f] = n
                => aliases'[p] # n /\ Suffixed(aliases'[p], n)

\* C7 amended: references are handled in declaration order; an import path
\* without alias gets the package name if no import path holds it, otherwise
\* the name with the smallest suffix 0, 1, 2, ... no import path holds; two
\* types of one package name and different import paths get distinct
\* aliases, the first bare and the other suffixed when their import paths
\* had no alias before and nothing held the bare name.
C7_AllocationRule ==
    [][AllocByRule /\ DeclarationOrder /\ DistinctAndSuffixedWhenFresh]_vars

C7_Witness ==
    /\ lastRef.kind = "TypeInfo"
    /\ lastRef.array = "TestSuites"
    /\ lastRef.PkgName = "a"
    /\ firstType["a"] \notin {"", lastRef.ImportPath}
    /\ aliases[firstType["a"]] = "a"
    /\ aliases[lastRef.ImportPath] = "a1"

\* C8: in the returned table an InitImportPaths entry (db.import included)
\* has the alias "_" exactly if no TypeInfo or MethodArg referenced it.
C8_DiscardIffUnreferenced ==
    pc = "ExecuteTemplate" =>
        \A i \in DOMAIN InitImportPaths :
            /\ InitImportPaths[i] \in DOMAIN aliases
            /\ aliases[InitImportPaths[i]] = "_"
                  <=> InitImportPaths[i] \notin referenced

C8_Witness ==
    /\ pc = "ExecuteTemplate"
    /\ Len(InitImportPaths) = 2
    /\ InitImportPaths[1] \in referenced
    /\ aliases[InitImportPaths[1]] # "_"
    /\ aliases[InitImportPaths[2]] = "_"

\* ------------------------------------------------ claims on Build's result
\* A *revel.Error as Build returns it.
Structured(e) ==
    /\ e # NilError
    /\ DOMAIN e = {"SourceType", "Title", "Path", "Description", "Line",
                   "SourceLines", "MetaError"}

\* C11 as claimed: every failure mode of a build attempt makes Build return
\* a structured error: no attempt ends without a return to the caller, a
\* failed preparation step included; and a completed call has exactly one of
\* the binary handle and the error non-nil.
C11_Original ==
    /\ pc # "Fatal"
    /\ "MkdirFailed" \in events =>
          pc = "Returned" /\ app = Nil /\ Structured(compileError)
    /\ pc = "Returned" =>
          \/ app = binName /\ compileError = NilError
          \/ app = Nil /\ Structured(compileError)

\* ------------------------------------------- claims on newCompileError
\* The lines of a text: the chunks between its line breaks.
RECURSIVE SplitLines(_)
SplitLines(out) ==
    LET nl == FirstAt(out, 1, {"\n"})
    IN  IF nl = 0 THEN <<out>>
        ELSE <<SubSeq(out, 1, nl - 1)>> \o SplitLines(SubSeq(out, nl + 1, Len(out)))

\* The diagnostic shape <path>:<line>:[<col>:] <message> on one line.
LineDiag(l) ==
    LET c == FirstAt(l, 1, {":"})
        col == /\ c + 5 <= Len(l)
               /\ l[c + 3] \in DigitChunks /\ l[c + 4] = ":" /\ l[c + 5] = " "
        d == IF col THEN c + 6 ELSE c + 4
    IN  IF /\ c > 1
           /\ \A i \in 1..(c - 1) : l[i] # "#"
           /\ c + 3 <= Len(l)
           /\ l[c + 1] \in DigitChunks
           /\ l[c + 2] = ":"
           /\ (col \/ l[c + 3] = " ")
        THEN [path |-> Join(SubSeq(l, 1, c - 1)),
              line |-> Atoi(l[c + 1]),
              desc |-> Join(SubSeq(l, d, Len(l)))]
        ELSE NoMatch

\* The indices of the lines of output that have the diagnostic shape.
DiagLines ==
    {i \in DOMAIN SplitLines(output) : LineDiag(SplitLines(output)[i]) # NoMatch}

FirstDiag ==
    LineDiag(SplitLines(output)[CHOOSE i \in DiagLines : \A j \in DiagLines : i <= j])

GenericError ==
    [SourceType |-> "Go code", Title |-> "Go Compilation Error",
     Path |-> "", Description |-> "See console for build error.",
     Line |-> 0, SourceLines |-> << >>, MetaError |-> ""]

\* C12 as claimed: when the first diagnostic line of the output is
\* <path>:<line>:[<col>:] <message>, the error has Path <path> as written,
\* Line <line> as a number and Description <message>.
C12_Original ==
    pc = "Parsed" /\ DiagLines # {} =>
        /\ compileError.Path = FirstDiag.path
        /\ compileError.Line = FirstDiag.line
        /\ compileError.Description = FirstDiag.desc

\* C13 as claimed: when no line of the output has the diagnostic shape the
\* error is the generic one (no Path, Line 0, no SourceLines, no MetaError,
\* the console description) and no source file is read.
C13_Original ==
    pc = "Parsed" /\ DiagLines = {} =>
        /\ compileError = GenericError
        /\ readLines = "none"

\* C15 as claimed: Path, Line and Description of a parsed error come from
\* one line, the first line with the diagnostic shape, which is no header
\* line; so Path holds no line break and no text of an earlier line.
C15_Original ==
    pc = "Parsed" /\ compileError.Description # GenericError.Description =>
        /\ DiagLines # {}
        /\ compileError.Path = FirstDiag.path
        /\ compileError.Line = FirstDiag.line
        /\ compileError.Description = FirstDiag.desc
        /\ \A i \in DiagLines : SplitLines(output)[i][1] # "#"

\* C14: when a diagnostic matched and its source file cannot be read, the
\* error still carries the diagnostic (Path, Line, Description as matched),
\* with no SourceLines and with MetaError set; when the file is read,
\* SourceLines are its lines and MetaError is empty; MetaError and
\* SourceLines are never both set.
C14_MetaErrorKeepsDiagnostic ==
    pc = "Parsed" =>
        LET m == errorMatch(output)
        IN  /\ readLines # "none" <=> m # NoMatch
            /\ m # NoMatch =>
                  /\ compileError.Path = m.path
                  /\ compileError.Line = Atoi(m.line)
                  /\ compileError.Description = m.desc
            /\ readLines = "failed" =>
                  /\ compileError.SourceLines = << >>
                  /\ compileError.MetaError # ""
            /\ readLines = "read" =>
                  /\ compileError.SourceLines = FileLines
                  /\ compileError.MetaError = ""
            /\ ~(compileError.MetaError # "" /\ compileError.SourceLines # << >>)

C14_Witness ==
    /\ pc = "Parsed"
    /\ output = JoinLines(<<HeaderLine, DiagColLine>>)
    /\ readLines = "failed"
    /\ compileError.Path = "controllers/app.go"
    /\ compileError.Line = 42
    /\ compileError.Description = "undefined: Foo"
    /\ compileError.MetaError = "/cwd/controllers/app.go: open failed"

\* ------------------------------------------------ claims on Build's steps
\* The text holds the missing-import pattern: import "<pkg>": cannot find package
HasMissingImport(text) ==
    \E i, j \in DOMAIN text :
        /\ j > i + 3
        /\ j + 3 <= Len(text)
        /\ SubSeq(text, i, i + 2) = <<"import", " ", "\"">>
        /\ \A k \in (i + 3)..(j - 1) : text[k] # "\""
        /\ SubSeq(text, j, j + 3) = <<"\"", ":", " ", "cannot find package">>

\* Build invocation res failed with an output without the import error.
NoImportError(res) == res # BuildOK /\ ~HasMissingImport(res)

\* C16: a failed build whose output does not hold the missing-import
\* pattern is the last step of the call: no fetch and no build follows,
\* Build has returned no handle and the error parsed from that output, and
\* gotten is as it was before that build.
C16_NoPatternFails ==
    /\ [](\A k \in DOMAIN buildLog :
              NoImportError(buildLog[k]) =>
                  /\ k = Len(buildLog)
                  /\ Len(getLog) = k - 1
                  /\ pc = "Returned"
                  /\ app = Nil
                  /\ ErrorFrom(buildLog[k])
                  /\ gotten = FetchedPkgs)
    /\ [][Len(buildLog') = Len(buildLog) + 1 /\ NoImportError(Last(buildLog'))
              => gotten' = gotten /\ getLog' = getLog /\ pc' = "Returned"]_vars

C16_Witness ==
    /\ pc = "Returned"
    /\ Len(buildLog) = 2
    /\ buildLog[2] = BadImportOut
    /\ gotten = {"q2"}
    /\ compileError.Description = "import \"q1\": cannot import absolute path"

\* C17: when ProcessSource returns an error, Build returns that error and
\* no handle, and has done nothing else: the scratch directory and main.go
\* are as the call found them, and no build and no fetch was run.
C17_AnalysisErrorNoEffect ==
    /\ []("AnalysisFailed" \in events =>
              /\ pc = "Returned"
              /\ app = Nil
              /\ compileError = AnalysisError
              /\ events = {"AnalysisFailed"}
              /\ registerControllerSource = ""
              /\ buildLog = << >>
              /\ getLog = << >>)
    /\ [][pc = "ProcessSource" /\ "AnalysisFailed" \in events'
              => UNCHANGED <<tmpDir, mainGo>>]_vars
    /\ [][pc = "ProcessSource" =>
              UNCHANGED <<tmpDir, mainGo, registerControllerSource, loopVars>>]_vars

C17_Witness ==
    /\ pc = "Returned"
    /\ calls = 2
    /\ events = {"AnalysisFailed"}
    /\ compileError = AnalysisError
    /\ tmpDir = "present"
    /\ mainGo = "main.go source"

\* ------------------------------------- claims on later alias references
\* A step of calcImportAliases that handles a reference to an import path.
InitStep == pc = "RangeInit" /\ initIdx' = initIdx + 1
RefStep == TypeStep \/ ArgStep \/ InitStep

\* C18: a reference to an import path that has an alias (by a type, by a
\* method argument of any package name, by InitImportPaths) leaves the
\* whole table as it is; while the table is built no import path loses or
\* changes its alias.
C18_LaterReferenceNoChange ==
    /\ [][RefStep /\ lastRef'.ImportPath \in DOMAIN aliases
              => aliases' = aliases]_vars
    /\ [][pc # "ExecuteTemplate" =>
              \A p \in DOMAIN aliases :
                  p \in DOMAIN aliases' /\ aliases'[p] = aliases[p]]_vars

C18_Witness ==
    /\ pc = "RangeArgs"
    /\ lastRef.kind = "MethodArg"
    /\ lastRef.PkgName = "a0"
    /\ lastRef.ImportPath \in DOMAIN aliases
    /\ aliases[lastRef.ImportPath] = "a"
    /\ firstType["a"] = lastRef.ImportPath
    /\ "a0" \notin RangeOf(aliases)

\* C19 as claimed: the identifiers of the import block of the generated
\* program are unique (the blank identifier apart): no alias of the table
\* is the identifier of an import the template emits itself.
C19_Original ==
    pc = "ExecuteTemplate" =>
        /\ \A p \in DOMAIN aliases : aliases[p] \notin TemplateImports
        /\ \A x, y \in ImportBlock(aliases) :
              x # y /\ x.ident = y.ident => x.ident = "_"

\* C20: gotten is local to one Build call: every call enters the retry loop
\* with an empty set and the set holds only packages this call's builds
\* reported; a package an earlier call attempted is fetched again when this
\* call first reports it missing, and at most once in this call.
C20_GottenPerCall ==
    /\ [][pc = "Import" /\ pc' = "GoBuild" => gotten' = {}]_vars
    /\ [](InLoop(pc) \/ (pc = "Returned" /\ buildLog # << >>)
              => gotten \subseteq Reported)
    /\ [][\A p \in earlier \ FetchedPkgs :
              Len(buildLog') = Len(buildLog) + 1 /\ IsMissing(Last(buildLog'), p)
                  => pc' = "GoGet" /\ pkgName' = p /\ gotten' = gotten \cup {p}]_vars
    /\ [](\A i, j \in DOMAIN getLog : i # j => getLog[i].pkg # getLog[j].pkg)

C20_Witness ==
    /\ calls = 2
    /\ earlier = {"q1"}
    /\ getLog = <<[pkg |-> "q1", ok |-> TRUE]>>
    /\ pc = "Returned"
    /\ app = binName

====
